---- MODULE Spec2Model ----
(***************************************************************************)
(* Model of monitor.py (ice-bath monitor): one run of main(), i.e. the     *)
(* schedule gate, the session connect, the sequential poll of DEVICES      *)
(* through get_device_status, and the single send_alert.                   *)
(*                                                                         *)
(* Numbers.  Every float of the program is a rational with denominator     *)
(* dividing 90 (raw/10.0 and (raw/10.0 - 32)*5/9), so a float x is held    *)
(* as the integer x * Scale.  The comparisons of the program (< MIN_FLOW,  *)
(* == 0, > MAX_TEMP, > 0, > 1.0) give the same answer on IEEE doubles as   *)
(* on the exact rationals for every raw integer in -2000..3000.            *)
(***************************************************************************)
EXTENDS Integers, Sequences, FiniteSets

VARIABLES
    now,           \* datetime.now(tz): [day, hour, minute] in Sydney time
    pc,            \* position of main: start, connect, poll (line 132),
                   \* extend (line 134), done, crashed
    gate,          \* result of should_run_check: "unchecked", "open", "closed"
    status,        \* last status line main printed
    connectCount,  \* calls of openapi.connect()
    idx,           \* position of the for loop over DEVICES.items()
    polled,        \* device names passed to openapi.get, in call order
    log,           \* lines get_device_status printed, in order
    response,      \* get_device_status's local response, while it is live
    reading,       \* get_device_status's other locals, while they are live
    exc,           \* exception that left get_device_status, or "none"
    device_issues, \* main's device_issues
    all_alerts,    \* main's all_alerts list
    sent           \* messages handed to send_alert, in call order

vars == <<now, pc, gate, status, connectCount, idx, polled, log, response,
          reading, exc, device_issues, all_alerts, sent>>

\* ---------------------------------------------------------------- bounds

\* Longest property list a response carries.
MaxProps == 3

\* ------------------------------------------------------- program constants

Scale == 9 * 10

MIN_FLOW == 19
MAX_TEMP == 12

DEVICES ==
    << [name |-> "Downstairs", id |-> "bfc028169a340521dcuol5"],
       [name |-> "Upstairs",   id |-> "bfce55e51b1d41fca6b0ns"] >>

\* ------------------------------------------------------------ schedule gate

Days == 0..6
Hours == 0..23
Minutes == {0, 30, 59}

\* Variant of should_run_check that is still open at the close hour.
should_run_check_OpenAtClose(day, hour) ==
    IF day = 0 THEN FALSE
    ELSE IF (1 <= day /\ day <= 3) \/ day = 6 THEN 7 <= hour /\ hour <= 19
    ELSE IF day = 4 THEN 7 <= hour /\ hour <= 20
    ELSE IF day = 5 THEN 7 <= hour /\ hour <= 21
    ELSE FALSE

should_run_check(day, hour) ==
    IF day = 0 THEN FALSE
    ELSE IF (1 <= day /\ day <= 3) \/ day = 6 THEN 7 <= hour /\ hour < 19
    ELSE IF day = 4 THEN 7 <= hour /\ hour < 20
    ELSE IF day = 5 THEN 7 <= hour /\ hour < 21
    ELSE FALSE

\* ------------------------------------------------------- telemetry payloads

\* A JSON value of a property entry: an integer, a boolean (v is 1 or 0), a
\* non-empty string, null, or no "value" key at all ("absent").
IntVal(n) == [t |-> "int", v |-> n]
BoolVal(b) == [t |-> "bool", v |-> IF b THEN 1 ELSE 0]
StrVal == [t |-> "str", v |-> 0]
NullVal == [t |-> "null", v |-> 0]
AbsentVal == [t |-> "absent", v |-> 0]

\* The key of an entry that has no "code" key.
AbsentCode == "<absent>"

Item(c, val) == [code |-> c, value |-> val]

\* The property entries a response is built from: well-formed readings on
\* both sides of every threshold, a Celsius-coded entry, an unknown code, and
\* the malformed entries (wrong type, null, missing value, missing code).
Items ==
    {Item("flow_water", IntVal(n)) : n \in {0, 150, 190}}
    \cup {Item("flow_water", StrVal)}
    \cup {Item("temp_current_f", IntVal(n)) : n \in {140, 320, 536, 755}}
    \cup {Item("temp_current_f", NullVal)}
    \cup {Item("temp_current", IntVal(80))}
    \cup {Item("sw_water", BoolVal(b)) : b \in BOOLEAN}
    \cup {Item("va_battery", StrVal)}
    \cup {Item("flow_water", AbsentVal)}
    \cup {Item(AbsentCode, IntVal(250))}

PropLists == UNION {[1..n -> Items] : n \in 0..MaxProps}

\* The "properties" member of "result": absent, null or a list.
PropShapes ==
    {[shape |-> "absent", items |-> <<>>], [shape |-> "null", items |-> <<>>]}
    \cup {[shape |-> "list", items |-> l] : l \in PropLists}

\* The "result" member of a response: absent, null or a dict.
ResultShapes ==
    {[shape |-> "absent", props |-> [shape |-> "absent", items |-> <<>>]],
     [shape |-> "null", props |-> [shape |-> "absent", items |-> <<>>]]}
    \cup {[shape |-> "dict", props |-> p] : p \in PropShapes}

\* What openapi.get returns: "success" true, false or absent, and "result".
\* An unsuccessful response carries no result.
Responses ==
    {[success |-> s, result |-> [shape |-> "absent",
                                 props |-> [shape |-> "absent", items |-> <<>>]]]
        : s \in {"false", "absent"}}
    \cup {[success |-> "true", result |-> r] : r \in ResultShapes}

NoResponse ==
    [success |-> "none", result |-> [shape |-> "absent",
                                     props |-> [shape |-> "absent", items |-> <<>>]]]

\* ------------------------------------------------------- get_device_status

\* not response.get('success')
\* Variant of fetch_failed that takes a missing success flag for success.
fetch_failed_AbsentIsSuccess(resp) == resp.success = "false"

fetch_failed(resp) == resp.success # "true"

\* response.get('result', {}).get('properties', []): the list to iterate, or
\* the exception (None has no .get; None is not iterable).
get_properties(resp) ==
    IF resp.result.shape = "absent" THEN [raised |-> "none", items |-> <<>>]
    ELSE IF resp.result.shape = "null"
        THEN [raised |-> "AttributeError", items |-> <<>>]
    ELSE IF resp.result.props.shape = "absent"
        THEN [raised |-> "none", items |-> <<>>]
    ELSE IF resp.result.props.shape = "null"
        THEN [raised |-> "TypeError", items |-> <<>>]
    ELSE [raised |-> "none", items |-> resp.result.props.items]

\* val / 10.0 is defined on int and bool, and raises TypeError otherwise.
IsNumber(val) == val.t \in {"int", "bool"}

Div10(val) == (val.v * Scale) \div 10

\* bool(val)
Truthy(val) ==
    CASE val.t = "int" -> val.v # 0
      [] val.t = "bool" -> val.v = 1
      [] val.t = "str" -> TRUE
      [] OTHER -> FALSE

\* (f_temp - 32) * 5/9
\* Variant of FahrenheitToCelsius that forgets the 32 degree offset.
FahrenheitToCelsius_NoOffset(f_temp) == (f_temp * 5) \div 9

FahrenheitToCelsius(f_temp) == ((f_temp - 32 * Scale) * 5) \div 9

\* The locals at line 73-75.
Defaults ==
    [flow_rate |-> 0, water_temp |-> 0, manual_switch |-> FALSE,
     pump_display |-> "unset", raised |-> "none"]

\* One pass of the body of `for item in properties`.
NormStep(acc, item) ==
    IF item.value.t = "absent" THEN [acc EXCEPT !.raised = "KeyError"]
    ELSE IF item.code = AbsentCode THEN [acc EXCEPT !.raised = "KeyError"]
    ELSE IF item.code = "flow_water" THEN
        IF IsNumber(item.value)
        THEN [acc EXCEPT !.flow_rate = Div10(item.value)]
        ELSE [acc EXCEPT !.raised = "TypeError"]
    ELSE IF item.code = "temp_current_f" THEN
        IF IsNumber(item.value)
        THEN [acc EXCEPT !.water_temp = FahrenheitToCelsius(Div10(item.value))]
        ELSE [acc EXCEPT !.raised = "TypeError"]
    ELSE IF item.code = "sw_water" THEN
        [acc EXCEPT !.manual_switch = Truthy(item.value)]
    ELSE acc

\* The for loop from entry i on; it stops at the first exception.
RECURSIVE NormLoop(_, _, _)
NormLoop(acc, items, i) ==
    IF i > Len(items) \/ acc.raised # "none" THEN acc
    ELSE NormLoop(NormStep(acc, items[i]), items, i + 1)

\* Lines 94-99: the pump state shown in the summary line.
pump_display(flow_rate, manual_switch) ==
    IF flow_rate > 1 * Scale THEN "ON (Active Flow)"
    ELSE IF manual_switch THEN "ON (Switch)"
    ELSE "OFF"

\* One line of the alert.  value is the number the f-string prints: the flow
\* as it is for Low Flow, the temperature in tenths (:.1f) for High Temp.
Issue(name, kind, value) == [name |-> name, kind |-> kind, value |-> value]

\* f"{water_temp:.1f}": tenths of a degree, rounded to nearest (n/9 is never
\* half-way between two tenths).
Format1f(x) == (2 * x + 9) \div (2 * 9)

\* RULE 1: LOW FLOW CHECK
\* Variant of flow_issues without the flow_rate == 0 branch.
flow_issues_ZeroIsLow(name, flow_rate) ==
    IF flow_rate < MIN_FLOW * Scale
    THEN << Issue(name, "LowFlow", flow_rate) >>
    ELSE << >>

flow_issues(name, flow_rate) ==
    IF flow_rate < MIN_FLOW * Scale
    THEN IF flow_rate = 0
         THEN << Issue(name, "NoFlow", 0) >>
         ELSE << Issue(name, "LowFlow", flow_rate) >>
    ELSE << >>

\* RULE 2: HIGH TEMP CHECK, the condition for a threshold max_temp.
\* Variant of high_temp without the water_temp > 0 guard.
high_temp_NoSentinelGuard(water_temp, max_temp) == water_temp > max_temp * Scale

high_temp(water_temp, max_temp) ==
    water_temp > max_temp * Scale /\ water_temp > 0

temp_issues(name, water_temp) ==
    IF high_temp(water_temp, MAX_TEMP)
    THEN << Issue(name, "HighTemp", Format1f(water_temp)) >>
    ELSE << >>

\* Lines 103-116: the issues list of a normalized reading.
\* Variant of evaluate that applies the temperature rule first.
evaluate_TempFirst(name, r) ==
    temp_issues(name, r.water_temp) \o flow_issues(name, r.flow_rate)

evaluate(name, r) ==
    flow_issues(name, r.flow_rate) \o temp_issues(name, r.water_temp)

\* A line get_device_status prints: "Error for", "Raw Data for", "Summary".
Line(what, name) == [line |-> what, name |-> name]

\* get_device_status(openapi, device_id, name) on the response resp: the
\* exception it raises or "none", the list it returns, its locals and the
\* lines it printed.
get_device_status(resp, name) ==
    IF fetch_failed(resp)
    THEN [raised |-> "none", reading |-> Defaults,
          issues |-> << Issue(name, "ConnectionError", 0) >>,
          printed |-> << Line("Error", name) >>]
    ELSE LET got == get_properties(resp)
             acc == NormLoop(Defaults, got.items, 1)
             r == [acc EXCEPT
                     !.pump_display = pump_display(acc.flow_rate, acc.manual_switch)]
         IN  IF got.raised = "AttributeError"
             THEN [raised |-> got.raised, reading |-> Defaults,
                   issues |-> << >>, printed |-> << >>]
             ELSE IF got.raised # "none"
             THEN [raised |-> got.raised, reading |-> Defaults,
                   issues |-> << >>, printed |-> << Line("Raw Data", name) >>]
             ELSE IF acc.raised # "none"
             THEN [raised |-> acc.raised, reading |-> acc,
                   issues |-> << >>, printed |-> << Line("Raw Data", name) >>]
             ELSE [raised |-> "none", reading |-> r,
                   issues |-> evaluate(name, r),
                   printed |-> << Line("Raw Data", name), Line("Summary", name) >>]

\* --------------------------------------------------------------------- main

\* The clock readings the whole cycle is explored from: the literal cases of
\* the schedule, open and closed.
CycleClocks ==
    {[day |-> 0, hour |-> 10, minute |-> 0],
     [day |-> 1, hour |-> 10, minute |-> 0],
     [day |-> 1, hour |-> 19, minute |-> 0],
     [day |-> 4, hour |-> 19, minute |-> 30],
     [day |-> 4, hour |-> 20, minute |-> 0],
     [day |-> 5, hour |-> 20, minute |-> 59],
     [day |-> 5, hour |-> 21, minute |-> 0]}

AllClocks == [day : Days, hour : Hours, minute : Minutes]

InitWith(clocks) ==
    /\ now \in clocks
    /\ pc = "start"
    /\ gate = "unchecked"
    /\ status = "Starting Ice Bath Check"
    /\ connectCount = 0
    /\ idx = 1
    /\ polled = << >>
    /\ log = << >>
    /\ response = NoResponse
    /\ reading = Defaults
    /\ exc = "none"
    /\ device_issues = << >>
    /\ all_alerts = << >>
    /\ sent = << >>

Init == InitWith(CycleClocks)

\* Lines 121-123.
\* Variant of CheckGate that goes on when the gate is closed.
CheckGate_NoReturn ==
    /\ pc = "start"
    /\ gate' = IF should_run_check(now.day, now.hour) THEN "open" ELSE "closed"
    /\ pc' = "connect"
    /\ UNCHANGED <<now, status, connectCount, idx, polled, log, response,
                   reading, exc, device_issues, all_alerts, sent>>

CheckGate ==
    /\ pc = "start"
    /\ IF should_run_check(now.day, now.hour)
       THEN /\ gate' = "open"
            /\ pc' = "connect"
            /\ UNCHANGED status
       ELSE /\ gate' = "closed"
            /\ pc' = "done"
            /\ status' = "Outside monitoring hours. Skipping check."
    /\ UNCHANGED <<now, connectCount, idx, polled, log, response, reading,
                   exc, device_issues, all_alerts, sent>>

\* Lines 125-130: connected is what openapi.connect() returned.
\* Variant of Connect that goes on when connect() fails.
Connect_IgnoreFailure ==
    /\ pc = "connect"
    /\ \E connected \in BOOLEAN :
        /\ connectCount' = connectCount + 1
        /\ pc' = "poll"
        /\ status' = IF connected THEN status ELSE "Failed to connect to Tuya Cloud"
    /\ idx' = 1
    /\ all_alerts' = << >>
    /\ UNCHANGED <<now, gate, polled, log, response, reading, exc,
                   device_issues, sent>>

Connect ==
    /\ pc = "connect"
    /\ \E connected \in BOOLEAN :
        /\ connectCount' = connectCount + 1
        /\ IF connected
           THEN /\ pc' = "poll"
                /\ idx' = 1
                /\ all_alerts' = << >>
                /\ UNCHANGED status
           ELSE /\ pc' = "done"
                /\ status' = "Failed to connect to Tuya Cloud"
                /\ UNCHANGED <<idx, all_alerts>>
    /\ UNCHANGED <<now, gate, polled, log, response, reading, exc,
                   device_issues, sent>>

\* Lines 132-133: the call of get_device_status for the next device, for
\* the response resp of openapi.get.  An exception leaves main.
PollDevice ==
    /\ pc = "poll"
    /\ idx <= Len(DEVICES)
    /\ \E resp \in Responses :
        LET name == DEVICES[idx].name
            out == get_device_status(resp, name)
        IN  /\ polled' = Append(polled, name)
            /\ log' = log \o out.printed
            /\ response' = resp
            /\ reading' = out.reading
            /\ exc' = out.raised
            /\ IF out.raised # "none"
               THEN /\ pc' = "crashed"
                    /\ UNCHANGED device_issues
               ELSE /\ pc' = "extend"
                    /\ device_issues' = out.issues
    /\ UNCHANGED <<now, gate, status, connectCount, idx, all_alerts, sent>>

\* Line 134, and the step of the loop; get_device_status has returned and
\* its locals are gone.
Extend ==
    /\ pc = "extend"
    /\ all_alerts' = all_alerts \o device_issues
    /\ idx' = idx + 1
    /\ pc' = "poll"
    /\ response' = NoResponse
    /\ reading' = Defaults
    /\ UNCHANGED <<now, gate, status, connectCount, polled, log, exc,
                   device_issues, sent>>

\* Lines 136-140.  full_msg joins the lines with "\n"; no line holds a
\* newline, so the message is held as the sequence of its lines.
Notify ==
    /\ pc = "poll"
    /\ idx > Len(DEVICES)
    /\ IF all_alerts # << >>
       THEN /\ sent' = Append(sent, all_alerts)
            /\ status' = "SENDING ALERT"
       ELSE /\ UNCHANGED sent
            /\ status' = "All Systems Normal"
    /\ pc' = "done"
    /\ UNCHANGED <<now, gate, connectCount, idx, polled, log, response,
                   reading, exc, device_issues, all_alerts>>

Next == CheckGate \/ Connect \/ PollDevice \/ Extend \/ Notify

Spec == Init /\ [][Next]_vars

\* should_run_check over every clock reading.
InitGate == InitWith(AllClocks)

NextGate == CheckGate

SpecGate == InitGate /\ [][NextGate]_vars

\* ------------------------------------------------------------------ claims

DevIndex(name) == CHOOSE i \in 1..Len(DEVICES) : DEVICES[i].name = name

\* The lines of a message that belong to one device.
IssuesOf(lines, name) == SelectSeq(lines, LAMBDA x : x.name = name)

\* The device of the last get_device_status call.
LastName == polled[Len(polled)]

\* The property list of the last response.
LastItems == response.result.props.items

\* get_device_status has just returned from normalizing and evaluating a
\* successful response.
LastEvaluated ==
    /\ pc = "extend"
    /\ response.success = "true"

CycleEnded == pc \in {"done", "crashed"}

Connected == connectCount = 1 /\ status # "Failed to connect to Tuya Cloud"

Printed(what, name) == \E k \in 1..Len(log) : log[k] = Line(what, name)

\* C1: in every cycle send_alert is invoked at most once; with the gate
\* open and the session connected it is invoked exactly once if issues were
\* collected and never if none were; without a connection it is not invoked.
C1_OneAlertIffIssues ==
    /\ Len(sent) <= 1
    /\ ~Connected => sent = << >>
    /\ (CycleEnded /\ Connected) => (Len(sent) = 1 <=> all_alerts # << >>)

\* C2: a failed fetch (success false or absent) yields exactly the
\* Connection Error issue of that device, with no flow or temperature issue
\* and no exception; the loop goes on, so every later device is polled; with
\* the first device healthy and the second failing the message is the one
\* Connection Error line.
C2_FetchFailureIsOneIssue ==
    /\ response.success \in {"false", "absent"} =>
          /\ pc = "extend"
          /\ exc = "none"
          /\ Printed("Error", LastName)
          /\ ~Printed("Summary", LastName)
          /\ device_issues = << Issue(LastName, "ConnectionError", 0) >>
    /\ \A i \in 1..Len(DEVICES) :
          Printed("Error", DEVICES[i].name) =>
              /\ ~Printed("Summary", DEVICES[i].name)
              /\ (pc # "extend" \/ LastName # DEVICES[i].name) =>
                    IssuesOf(all_alerts, DEVICES[i].name)
                        = << Issue(DEVICES[i].name, "ConnectionError", 0) >>
    /\ \A i \in 1..Len(DEVICES) :
          (CycleEnded /\ Printed("Error", DEVICES[i].name)) =>
              \A j \in (i + 1)..Len(DEVICES) :
                  \E k \in 1..Len(polled) : polled[k] = DEVICES[j].name
    /\ ( /\ pc = "done"
         /\ Printed("Summary", DEVICES[1].name)
         /\ IssuesOf(all_alerts, DEVICES[1].name) = << >>
         /\ Printed("Error", DEVICES[2].name) ) =>
          sent = << << Issue(DEVICES[2].name, "ConnectionError", 0) >> >>

C2_Witness ==
    /\ pc = "done"
    /\ Printed("Error", DEVICES[1].name)
    /\ Printed("Summary", DEVICES[2].name)
    /\ Len(sent) = 1
    /\ sent[1][1] = Issue(DEVICES[1].name, "ConnectionError", 0)
    /\ Len(sent[1]) = 3

\* C3: when openapi.connect() is falsy the cycle ends by a normal return
\* with no device polled and no alert sent.
C3_ConnectFailureEndsCycle ==
    status = "Failed to connect to Tuya Cloud" =>
        /\ pc = "done"
        /\ exc = "none"
        /\ polled = << >>
        /\ log = << >>
        /\ sent = << >>

C3_Witness ==
    /\ status = "Failed to connect to Tuya Cloud"
    /\ connectCount = 1
    /\ gate = "open"

\* C4: with the gate closed the cycle ends cleanly with no connect, no fetch
\* and no alert; nothing contacts the telemetry source or the sink before
\* the gate is checked.
C4_ClosedGateNoContact ==
    /\ gate = "closed" =>
          /\ pc = "done"
          /\ exc = "none"
          /\ connectCount = 0
          /\ polled = << >>
          /\ sent = << >>
    /\ gate = "unchecked" =>
          /\ connectCount = 0
          /\ polled = << >>
          /\ sent = << >>

C4_Witness ==
    /\ gate = "closed"
    /\ pc = "done"
    /\ now.day = 1
    /\ now.hour = 19

\* The close hour the schedule states for an open day.
ClaimedCloseHour(day) ==
    CASE day \in {1, 2, 3, 6} -> 19
      [] day = 4 -> 20
      [] day = 5 -> 21
      [] OTHER -> 0

GateAt(day, hour, minute) ==
    now = [day |-> day, hour |-> hour, minute |-> minute]

\* C5: for every day and hour the gate is open exactly when the day is not
\* Monday and 7 <= hour < close hour of the day (19 Tuesday to Thursday and
\* Sunday, 20 Friday, 21 Saturday); the literal cases of the schedule.
C5_GateIsOpeningHours ==
    gate # "unchecked" =>
        /\ gate = "open" <=>
              /\ now.day # 0
              /\ 7 <= now.hour
              /\ now.hour < ClaimedCloseHour(now.day)
        /\ now.day = 0 => gate = "closed"
        /\ GateAt(1, 10, 0) => gate = "open"
        /\ GateAt(1, 19, 0) => gate = "closed"
        /\ GateAt(4, 19, 30) => gate = "open"
        /\ GateAt(4, 20, 0) => gate = "closed"
        /\ GateAt(5, 20, 59) => gate = "open"
        /\ GateAt(5, 21, 0) => gate = "closed"

C5_Witness == GateAt(5, 20, 59) /\ gate = "open" /\ pc = "connect"

\* Rule order within a device: the flow issue before the temperature issue.
KindRank(kind) ==
    CASE kind = "ConnectionError" -> 0
      [] kind \in {"NoFlow", "LowFlow"} -> 1
      [] kind = "HighTemp" -> 2

Ordered(lines) ==
    \A i, j \in 1..Len(lines) :
        i < j =>
            /\ DevIndex(lines[i].name) <= DevIndex(lines[j].name)
            /\ lines[i].name = lines[j].name =>
                  KindRank(lines[i].kind) < KindRank(lines[j].kind)

\* C6: the lines of the message are the issues of the devices in
\* registration order, a device's lines are contiguous, and within a device
\* the flow issue precedes the temperature issue.
C6_MessageInRegistrationOrder ==
    /\ Ordered(all_alerts)
    /\ \A k \in 1..Len(sent) : sent[k] = all_alerts /\ Ordered(sent[k])

C6_Witness ==
    /\ Len(sent) = 1
    /\ Len(sent[1]) = 4
    /\ sent[1][1].kind = "LowFlow" /\ sent[1][1].name = DEVICES[1].name
    /\ sent[1][2].kind = "HighTemp" /\ sent[1][2].name = DEVICES[1].name
    /\ sent[1][3].kind = "NoFlow" /\ sent[1][3].name = DEVICES[2].name
    /\ sent[1][4].kind = "HighTemp" /\ sent[1][4].name = DEVICES[2].name

\* C7: a successful response with malformed or partial telemetry never
\* raises: get_device_status returns and the cycle goes on.
C7_MalformedNeverRaises == exc = "none" /\ pc # "crashed"

\* Thresholds of either sign for the temperature rule.
ThresholdSigns == {0 - MAX_TEMP, 0, MAX_TEMP}

\* C8: an evaluated reading with flow_rate >= MIN_FLOW and (water_temp <=
\* MAX_TEMP or water_temp <= 0) has no issue, whatever the switch and pump
\* state; a water_temp of exactly 0.0 gives no High Temp issue, and the rule
\* gives none for it under a threshold of any sign.
C8_HealthyReadingNoIssue ==
    LastEvaluated =>
        /\ ( /\ reading.flow_rate >= MIN_FLOW * Scale
             /\ \/ reading.water_temp <= MAX_TEMP * Scale
                \/ reading.water_temp <= 0 ) =>
              device_issues = << >>
        /\ reading.water_temp = 0 =>
              /\ \A k \in 1..Len(device_issues) :
                    device_issues[k].kind # "HighTemp"
              /\ \A m \in ThresholdSigns : ~high_temp(reading.water_temp, m)

C8_Witness ==
    /\ LastEvaluated
    /\ LastName = DEVICES[2].name
    /\ reading.flow_rate = MIN_FLOW * Scale
    /\ reading.water_temp = 0
    /\ LastItems = << Item("flow_water", IntVal(190)),
                      Item("temp_current_f", IntVal(320)),
                      Item("sw_water", BoolVal(FALSE)) >>
    /\ reading.pump_display = "ON (Active Flow)"
    /\ device_issues = << >>

FlowLines(lines) == SelectSeq(lines, LAMBDA x : x.kind \in {"NoFlow", "LowFlow"})

TempLines(lines) == SelectSeq(lines, LAMBDA x : x.kind = "HighTemp")

\* C9: an evaluated reading below MIN_FLOW has exactly one flow issue, No
\* Flow when flow_rate is 0.0 and otherwise Low Flow carrying the measured
\* flow; at or above MIN_FLOW it has none.  The temperature rule is decided
\* by the temperature alone, so a device has 0, 1 or 2 issues.
C9_FlowRuleClassifies ==
    LastEvaluated =>
        LET mine == device_issues
            f == reading.flow_rate
        IN  /\ f = 0 => FlowLines(mine) = << Issue(LastName, "NoFlow", 0) >>
            /\ (0 < f /\ f < MIN_FLOW * Scale) =>
                  FlowLines(mine) = << Issue(LastName, "LowFlow", f) >>
            /\ (f # 0 /\ f < MIN_FLOW * Scale) =>
                  /\ Len(FlowLines(mine)) = 1
                  /\ FlowLines(mine)[1].kind = "LowFlow"
            /\ f >= MIN_FLOW * Scale => FlowLines(mine) = << >>
            /\ Len(TempLines(mine)) = 1 <=>
                  (reading.water_temp > MAX_TEMP * Scale /\ reading.water_temp > 0)
            /\ Len(TempLines(mine)) <= 1
            /\ Len(mine) = Len(FlowLines(mine)) + Len(TempLines(mine))
            /\ Len(mine) \in 0..2

C9_Witness ==
    /\ LastEvaluated
    /\ LastItems = << Item("flow_water", IntVal(150)),
                      Item("temp_current_f", IntVal(755)) >>
    /\ reading.flow_rate = 15 * Scale
    /\ device_issues
          = << Issue(LastName, "LowFlow", 15 * Scale), Issue(LastName, "HighTemp", 242) >>

\* The entries of the last property list that carry a code.
Coded(code) == {k \in 1..Len(LastItems) : LastItems[k].code = code}

Last(S) == CHOOSE k \in S : \A m \in S : m <= k

\* (raw/10 - 32) * 5/9 in units of 1/Scale.
ClaimedFromFahrenheit(raw) == (raw - 320) * 5

\* raw/10 in units of 1/Scale.
ClaimedFromCelsius(raw) == raw * 9

====
